---- MODULE Spec2Model ----
(***************************************************************************)
(* The profile aggregation engine of ddprof-profiles (src/lib.rs): the     *)
(* interning string table, the insertion-ordered dedup containers, add,    *)
(* reset and serialize, as a state machine over one live Profile (Spec;    *)
(* StartLineSpec feeds it functions with negative start lines), and the    *)
(* two clock fields of the Profile (ClockSpec).  The exporter's connector  *)
(* (ConnectorSpec; ServiceSpec adds poll_ready and connected()), its       *)
(* unix-socket URI codec (UdsSpec) and the tag parsers of the exporter and *)
(* of the FFI (TagSpec) are state machines of their own over their own     *)
(* variables.                                                              *)
(*                                                                         *)
(* Conventions.  An IndexSet / IndexMap is a sequence without duplicates;  *)
(* the 0-based index of the source is (position in the sequence) - 1.      *)
(* Option<T> is a sequence of length at most one: << >> is None and <<x>>  *)
(* is Some(x).  A PProfId is the natural number it wraps.                  *)
(***************************************************************************)
EXTENDS Integers, Sequences, FiniteSets, TLC

\* Number of operations (add, reset, serialize) issued on the profile.
MaxOps == 4

\* lib.rs:304 sets CONTAINER_MAX to (u32::MAX - 1).  The table cannot be
\* filled to 2^32 entries in a check, so the constant is scaled down; every
\* comparison against it is the source's.
CONTAINER_MAX == 8

VARIABLES
    profile,    \* the live Profile (the &mut self of add / reset / serialize)
    returned,   \* the Profiles handed back by reset, oldest first
    encoded,    \* Option: the pprof message of the latest serialize
    history,    \* the calls made so far with their results, oldest first
    connector,  \* the MaybeHttpsConnector: "Http" or "Https"
    cfg_unix,   \* cfg(unix): TRUE on a build for a unix target
    start_time, \* the Profile's start_time: nanoseconds from the Unix epoch
    started_at, \* the Profile's started_at: a reading of the monotonic clock
    instant_now, \* the latest reading of the monotonic clock
    times,      \* Option: time_nanos and duration_nanos of the latest conversion
    dialed,     \* the calls made on the connector with their outcomes
    native_certs, \* what load_native_certs gave when the connector was built
    polled,     \* Option: the latest poll_ready and what it returned
    reported,   \* Option: the latest connected() of a stream and its report
    uri_made,   \* Option: the latest socket_path_to_uri call and its result
    path_read,  \* Option: the latest socket_path_from_uri call and its result
    tags,       \* the Vec<Tag> that ddprof_ffi_Vec_tag_push fills
    tag_call    \* Option: the latest tag call and its result

profileVars == <<profile, returned, encoded, history>>
clockVars == <<start_time, started_at, instant_now, times>>
connectorVars == <<connector, cfg_unix, dialed, native_certs, polled, reported>>
udsVars == <<uri_made, path_read>>
tagVars == <<tags, tag_call>>

vars == <<profileVars, clockVars, connectorVars, udsVars, tagVars>>

----------------------------------------------------------------------------
(* api inputs: the values of the tests of lib.rs and of the FFI tests.     *)

MappingPhp ==
    [memory_start |-> 0, memory_limit |-> 0, file_offset |-> 0,
     filename |-> "php", build_id |-> ""]

MappingAnon ==
    [memory_start |-> 1, memory_limit |-> 2, file_offset |-> 0,
     filename |-> "", build_id |-> ""]

FunctionMain ==
    [name |-> "{main}", system_name |-> "{main}", filename |-> "index.php",
     start_line |-> 0]

FunctionTest ==
    [name |-> "test", system_name |-> "test", filename |-> "index.php",
     start_line |-> 3]

LocationMain ==
    [mapping |-> MappingPhp, address |-> 0,
     lines |-> <<[function |-> FunctionMain, line |-> 0]>>, is_folded |-> FALSE]

LocationTest ==
    [mapping |-> MappingPhp, address |-> 0,
     lines |-> <<[function |-> FunctionTest, line |-> 0]>>, is_folded |-> FALSE]

LocationAnon ==
    [mapping |-> MappingAnon, address |-> 1, lines |-> << >>, is_folded |-> TRUE]

LabelPid == [key |-> "pid", str |-> << >>, num |-> 101, num_unit |-> << >>]

LabelStr == [key |-> "k", str |-> <<"v">>, num |-> 0, num_unit |-> << >>]

LabelNum == [key |-> "pid", str |-> << >>, num |-> 8, num_unit |-> <<"bytes">>]

\* The api::Sample values add is called with.
SampleInputs ==
    { [locations |-> <<LocationMain>>, values |-> <<1>>, labels |-> <<LabelPid>>],
      [locations |-> <<LocationMain>>, values |-> <<2>>, labels |-> <<LabelPid>>],
      [locations |-> <<LocationTest>>, values |-> <<1>>, labels |-> <<LabelPid>>],
      [locations |-> << >>, values |-> <<1>>, labels |-> <<LabelStr>>],
      [locations |-> << >>, values |-> <<3>>, labels |-> << >>],
      [locations |-> <<LocationAnon, LocationMain>>, values |-> <<5>>,
       labels |-> <<LabelNum>>],
      [locations |-> <<LocationMain, LocationTest>>, values |-> <<1, 10000>>,
       labels |-> << >>],
      [locations |-> << >>, values |-> <<2, 3>>, labels |-> <<LabelStr>>],
      [locations |-> <<LocationMain>>, values |-> << >>, labels |-> <<LabelPid>>] }

\* The (sample_types, period) pairs the builder is given.
BuilderInputs ==
    { [sample_types |-> <<[type |-> "samples", unit |-> "count"]>>,
       period |-> << >>],
      [sample_types |-> <<[type |-> "samples", unit |-> "count"],
                          [type |-> "wall-time", unit |-> "nanoseconds"]>>,
       period |-> <<[type |-> [type |-> "wall-time", unit |-> "nanoseconds"],
                     value |-> 10000]>>] }

\* Every string an input can carry.
Strings ==
    {"", "samples", "count", "wall-time", "nanoseconds", "php", "{main}",
     "test", "index.php", "pid", "k", "v", "bytes"}

----------------------------------------------------------------------------
(* IndexSet: get_index_of, insert_full and the DedupExt trait.             *)

\* The element of a one-element set: Only({e(x) : x \in {v}}) is
\* "let x = v; e(x)" with v computed once.
Only(S) == CHOOSE x \in S : TRUE

Contains(set, item) == \E i \in 1..Len(set) : set[i] = item

IndexOf(set, item) == (CHOOSE i \in 1..Len(set) : set[i] = item) - 1

\* IndexSet::get_index_of: Some(index) of an equal element, else None.
get_index_of(set, item) ==
    IF Contains(set, item) THEN <<IndexOf(set, item)>> ELSE << >>

\* IndexSet::insert_full: an equal element keeps its index and the set is
\* untouched; otherwise the item goes to the end.
insert_full(set, item) ==
    IF Contains(set, item)
    THEN [set |-> set, index |-> IndexOf(set, item), inserted |-> FALSE]
    ELSE [set |-> Append(set, item), index |-> Len(set), inserted |-> TRUE]

\* A dedup that pushes the item without looking for an equal one.
DedupPushing(set, item) ==
    [set |-> Append(set, item), index |-> Len(set)]

\* let (id, _) = self.insert_full(item); id
dedup(set, item) ==
    Only({ [set |-> r.set, index |-> r.index] : r \in {insert_full(set, item)} })

\* A dedup_ref that skips the lookup and always inserts.
DedupRefNoLookup(set, item) ==
    [set |-> Append(set, item), index |-> Len(set)]

dedup_ref(set, item) ==
    Only({ IF found # << >>
           THEN [set |-> set, index |-> found[1]]
           ELSE dedup(set, item) :
           found \in {get_index_of(set, item)} })

----------------------------------------------------------------------------
(* Profile::new, Profile::intern, ProfileBuilder::build.                   *)

\* An intern that shifts the id by one, as the other containers do.
InternShifted(p, str) ==
    Only({ [p |-> [p EXCEPT !.strings = r.set], id |-> r.index + 1] :
           r \in {dedup_ref(p.strings, str)} })

intern(p, str) ==
    Only({ [p |-> [p EXCEPT !.strings = r.set], id |-> r.index] :
           r \in {dedup_ref(p.strings, str)} })

EmptyProfile ==
    [sample_types |-> << >>, samples |-> << >>, mappings |-> << >>,
     locations |-> << >>, functions |-> << >>, strings |-> << >>,
     period |-> 0, period_type |-> << >>]

\* A new() that leaves the string table empty.
ProfileNewNoEmptyString == EmptyProfile

Profile_new == intern(EmptyProfile, "").p

\* Interns type then unit: the closure of build's map, and the Some arm.
InternValueType(p, vt) ==
    Only({ Only({ [p |-> u.p, vt |-> [type_ |-> t.id, unit |-> u.id]] :
                  u \in {intern(t.p, vt.unit)} }) :
           t \in {intern(p, vt.type)} })

RECURSIVE InternValueTypes(_, _, _)
InternValueTypes(p, vts, acc) ==
    IF vts = << >>
    THEN [p |-> p, out |-> acc]
    ELSE Only({ InternValueTypes(r.p, Tail(vts), Append(acc, r.vt)) :
                r \in {InternValueType(p, Head(vts))} })

\* build's if let Some(p) = self.period.
BuildPeriod(p, period) ==
    IF period # << >>
    THEN Only({ [pt.p EXCEPT !.period = period[1].value,
                             !.period_type = <<pt.vt>>] :
                pt \in {InternValueType(p, period[1].type)} })
    ELSE p

build(sample_types, period) ==
    Only({ BuildPeriod([st.p EXCEPT !.sample_types = st.out], period) :
           st \in {InternValueTypes(Profile_new, sample_types, << >>)} })

get_string(p, id) ==
    IF id < Len(p.strings) THEN <<p.strings[id + 1]>> ELSE << >>

----------------------------------------------------------------------------
(* Profile::add and its helpers.  Each helper takes the profile it works   *)
(* on and gives back the profile it leaves behind, so a failure part-way   *)
(* keeps what was interned before it.                                      *)

\* A dedup of mappings that hands out the index itself, without the shift.
DedupMappingUnshifted(p, mapping, filename, build_id) ==
    Only({ [ok |-> TRUE, p |-> [p EXCEPT !.mappings = d.set], id |-> d.index] :
           d \in {dedup(p.mappings,
                        [memory_start |-> mapping.memory_start,
                         memory_limit |-> mapping.memory_limit,
                         file_offset |-> mapping.file_offset,
                         filename |-> filename, build_id |-> build_id])} })

\* self.mappings.dedup(Mapping {..}) and Ok(PProfId(index + 1)).
DedupMapping(p, mapping, filename, build_id) ==
    Only({ [ok |-> TRUE, p |-> [p EXCEPT !.mappings = d.set], id |-> d.index + 1] :
           d \in {dedup(p.mappings,
                        [memory_start |-> mapping.memory_start,
                         memory_limit |-> mapping.memory_limit,
                         file_offset |-> mapping.file_offset,
                         filename |-> filename, build_id |-> build_id])} })

add_mapping(p, mapping) ==
    IF Len(p.strings) >= CONTAINER_MAX \/ Len(p.mappings) >= CONTAINER_MAX
    THEN [ok |-> FALSE, p |-> p, id |-> 0]
    ELSE Only({ Only({ DedupMapping(b.p, mapping, f.id, b.id) :
                       b \in {intern(f.p, mapping.build_id)} }) :
                f \in {intern(p, mapping.filename)} })

\* An add_function that stores start_line as it is given.
DedupFunctionUnclamped(p, function, name, system_name, filename) ==
    Only({ [p |-> [p EXCEPT !.functions = d.set], id |-> d.index + 1] :
           d \in {dedup(p.functions,
                        [name |-> name, system_name |-> system_name,
                         filename |-> filename,
                         start_line |-> function.start_line])} })

\* self.functions.dedup(Function {..}) and PProfId(index + 1).
DedupFunction(p, function, name, system_name, filename) ==
    Only({ [p |-> [p EXCEPT !.functions = d.set], id |-> d.index + 1] :
           d \in {dedup(p.functions,
                        [name |-> name, system_name |-> system_name,
                         filename |-> filename,
                         start_line |-> IF function.start_line < 0
                                        THEN 0 ELSE function.start_line])} })

add_function(p, function) ==
    Only({ Only({ Only({ DedupFunction(f.p, function, n.id, s.id, f.id) :
                         f \in {intern(s.p, function.filename)} }) :
                  s \in {intern(n.p, function.system_name)} }) :
           n \in {intern(p, function.name)} })

\* label.str.map(|s| self.intern(s)).unwrap_or(PProfId(0)), and the same
\* for label.num_unit.
InternOption(p, str) ==
    IF str # << >> THEN intern(p, str[1]) ELSE [p |-> p, id |-> 0]

\* The closure mapped over sample.labels: key, then str, then num_unit.
InternLabel(p, label) ==
    Only({ Only({ Only({ [p |-> u.p,
                          label |-> [key |-> k.id, str |-> s.id,
                                     num |-> label.num, num_unit |-> u.id]] :
                         u \in {InternOption(s.p, label.num_unit)} }) :
                  s \in {InternOption(k.p, label.str)} }) :
           k \in {intern(p, label.key)} })

RECURSIVE InternLabels(_, _, _)
InternLabels(p, labels, acc) ==
    IF labels = << >>
    THEN [p |-> p, out |-> acc]
    ELSE Only({ InternLabels(r.p, Tail(labels), Append(acc, r.label)) :
                r \in {InternLabel(p, Head(labels))} })

\* The closure mapped over location.lines.
RECURSIVE AddLines(_, _, _)
AddLines(p, lines, acc) ==
    IF lines = << >>
    THEN [p |-> p, out |-> acc]
    ELSE Only({ AddLines(r.p, Tail(lines),
                         Append(acc, [function_id |-> r.id,
                                      line |-> Head(lines).line])) :
                r \in {add_function(p, Head(lines).function)} })

\* self.locations.dedup(Location {..}) and PProfId(index + 1).  The address
\* is try_into::<usize>().unwrap_or(0) of a u64: the value itself on a 64-bit
\* target, which the inputs' small addresses stay inside on any target.
DedupLocation(p, location, mapping_id, lines) ==
    Only({ [p |-> [p EXCEPT !.locations = d.set], id |-> d.index + 1] :
           d \in {dedup(p.locations,
                        [mapping_id |-> mapping_id,
                         address |-> location.address,
                         lines |-> lines,
                         is_folded |-> location.is_folded])} })

\* One turn of the for loop over sample.locations, after add_mapping's Ok.
AddLocation(p, location, mapping_id) ==
    Only({ DedupLocation(l.p, location, mapping_id, l.out) :
           l \in {AddLines(p, location.lines, << >>)} })

\* The for loop over sample.locations; add_mapping's ? leaves the loop, and
\* add, with the profile as it stands.
RECURSIVE AddLocations(_, _, _)
AddLocations(p, locations, acc) ==
    IF locations = << >>
    THEN [ok |-> TRUE, p |-> p, out |-> acc]
    ELSE Only({ IF ~m.ok
                THEN [ok |-> FALSE, p |-> m.p, out |-> acc]
                ELSE Only({ AddLocations(d.p, Tail(locations), Append(acc, d.id)) :
                            d \in {AddLocation(m.p, Head(locations), m.id)} }) :
                m \in {add_mapping(p, Head(locations).mapping)} })

SampleKeys(p) == [i \in 1..Len(p.samples) |-> p.samples[i].key]

\* existing_values.iter_mut().zip(values): a += b, position by position.
\* The sums of the inputs' values stay inside i64.
AddAssign(existing, values) ==
    [i \in 1..Len(existing) |->
        IF i <= Len(values) THEN existing[i] + values[i] ELSE existing[i]]

\* The outcome of add: Ok(PProfId(id)) or Err(FullError).
Ok(id) == [ok |-> TRUE, id |-> id]
Full == [ok |-> FALSE, id |-> 0]

\* An add that puts a new sample first instead of last.
AddSamplePrepending(p, s, values) ==
    Only({ IF found = << >>
           THEN [p |-> [p EXCEPT !.samples =
                          <<[key |-> s, values |-> values]>> \o @],
                 res |-> Ok(Len(p.samples) + 1)]
           ELSE [p |-> [p EXCEPT !.samples[found[1] + 1].values =
                          AddAssign(@, values)],
                 res |-> Ok(found[1] + 1)] :
           found \in {get_index_of(SampleKeys(p), s)} })

\* match self.samples.get_index_of(&s): insert, or sum into the entry.
AddSample(p, s, values) ==
    Only({ IF found = << >>
           THEN [p |-> [p EXCEPT !.samples =
                          Append(@, [key |-> s, values |-> values])],
                 res |-> Ok(Len(p.samples) + 1)]
           ELSE [p |-> [p EXCEPT !.samples[found[1] + 1].values =
                          AddAssign(@, values)],
                 res |-> Ok(found[1] + 1)] :
           found \in {get_index_of(SampleKeys(p), s)} })

\* An add that, stopped by Full, still records the sample with the locations
\* it got to.
AddBodyRecordingPartial(p, sample) ==
    Only({ Only({ IF ~lc.ok
                  THEN [p |-> AddSample(lc.p, [locations |-> lc.out,
                                               labels |-> lb.out],
                                        sample.values).p,
                        res |-> Full]
                  ELSE AddSample(lc.p, [locations |-> lc.out, labels |-> lb.out],
                                 sample.values) :
                  lc \in {AddLocations(lb.p, sample.locations, << >>)} }) :
           lb \in {InternLabels(p, sample.labels, << >>)} })

\* The body of add after the length test: labels, locations, sample.
AddBody(p, sample) ==
    Only({ Only({ IF ~lc.ok
                  THEN [p |-> lc.p, res |-> Full]
                  ELSE AddSample(lc.p, [locations |-> lc.out, labels |-> lb.out],
                                 sample.values) :
                  lc \in {AddLocations(lb.p, sample.locations, << >>)} }) :
           lb \in {InternLabels(p, sample.labels, << >>)} })

\* An add that tests the number of values only after the labels are interned.
AddLateLengthTest(p, sample) ==
    IF Len(sample.values) # Len(p.sample_types)
    THEN [p |-> InternLabels(p, sample.labels, << >>).p, res |-> Ok(0)]
    ELSE AddBody(p, sample)

add(p, sample) ==
    IF Len(sample.values) # Len(p.sample_types)
    THEN [p |-> p, res |-> Ok(0)]
    ELSE AddBody(p, sample)

----------------------------------------------------------------------------
(* Profile::reset.                                                         *)

Resolves(p, vt) ==
    get_string(p, vt.type_) # << >> /\ get_string(p, vt.unit) # << >>

\* A ValueType's ids resolved through p's string table.
ApiValueType(p, vt) ==
    [type |-> get_string(p, vt.type_)[1], unit |-> get_string(p, vt.unit)[1]]

extract_api_sample_types(p) ==
    IF \A i \in 1..Len(p.sample_types) : Resolves(p, p.sample_types[i])
    THEN <<[i \in 1..Len(p.sample_types) |-> ApiValueType(p, p.sample_types[i])]>>
    ELSE << >>

\* The period handed to the builder: Some(api::Period) or None.
ApiPeriod(p) ==
    IF p.period_type = << >>
    THEN << >>
    ELSE <<[type |-> ApiValueType(p, p.period_type[1]), value |-> p.period]>>

\* A reset that forgets the period.
ResetWithoutPeriod(p) ==
    [ok |-> TRUE, live |-> build(extract_api_sample_types(p)[1], << >>),
     prev |-> p]

\* A reset that copies the ValueType ids into a fresh profile.
ResetCopyingIds(p) ==
    [ok |-> TRUE,
     live |-> [Profile_new EXCEPT !.sample_types = p.sample_types,
                                  !.period = p.period,
                                  !.period_type = p.period_type],
     prev |-> p]

\* A reset that builds the fresh profile and hands it back without the swap.
ResetWithoutSwap(p) ==
    [ok |-> TRUE, live |-> p,
     prev |-> build(extract_api_sample_types(p)[1], ApiPeriod(p))]

\* ok: Some(previous profile) was returned; live: *self after the call.
reset(p) ==
    Only({ IF sample_types = << >>
              \/ (p.period_type # << >> /\ ~Resolves(p, p.period_type[1]))
           THEN [ok |-> FALSE, live |-> p, prev |-> p]
           ELSE [ok |-> TRUE, live |-> build(sample_types[1], ApiPeriod(p)),
                 prev |-> p] :
           sample_types \in {extract_api_sample_types(p)} })

\* ddprof-ffi: profile.reset().is_some().
ddprof_ffi_Profile_reset(p) == reset(p).ok

----------------------------------------------------------------------------
(* impl From<&Profile> for pprof::Profile, as far as it depends on the     *)
(* containers (time_nanos and duration_nanos read the clocks).  The ids    *)
(* go through try_into().unwrap_or(0) to u64 / i64, which keeps every id   *)
(* below 2^63; the ids here are bounded by the container sizes.            *)

PprofValueType(vt) == [type |-> vt.type_, unit |-> vt.unit]

PprofLabel(label) ==
    [key |-> label.key, str |-> label.str, num |-> label.num,
     num_unit |-> label.num_unit]

PprofProfile(p) ==
    [sample_type |-> [i \in 1..Len(p.sample_types) |->
                        PprofValueType(p.sample_types[i])],
     sample |-> [i \in 1..Len(p.samples) |->
                   [location_id |-> p.samples[i].key.locations,
                    value |-> p.samples[i].values,
                    label |-> [j \in 1..Len(p.samples[i].key.labels) |->
                                 PprofLabel(p.samples[i].key.labels[j])]]],
     mapping |-> [i \in 1..Len(p.mappings) |->
                    [id |-> i,
                     memory_start |-> p.mappings[i].memory_start,
                     memory_limit |-> p.mappings[i].memory_limit,
                     file_offset |-> p.mappings[i].file_offset,
                     filename |-> p.mappings[i].filename,
                     build_id |-> p.mappings[i].build_id]],
     location |-> [i \in 1..Len(p.locations) |->
                     [id |-> i,
                      mapping_id |-> p.locations[i].mapping_id,
                      address |-> p.locations[i].address,
                      line |-> p.locations[i].lines,
                      is_folded |-> p.locations[i].is_folded]],
     function |-> [i \in 1..Len(p.functions) |->
                     [id |-> i,
                      name |-> p.functions[i].name,
                      system_name |-> p.functions[i].system_name,
                      filename |-> p.functions[i].filename,
                      start_line |-> p.functions[i].start_line]],
     string_table |-> p.strings,
     period |-> p.period,
     period_type |-> IF p.period_type = << >> THEN << >>
                     ELSE <<PprofValueType(p.period_type[1])>>]

----------------------------------------------------------------------------
(* The state machine: one builder call, then add / reset / serialize.      *)

\* Each part's variables while another part is at work.
ProfileIdle ==
    /\ profile = Profile_new
    /\ returned = << >>
    /\ encoded = << >>
    /\ history = << >>

ConnectorIdle ==
    /\ connector = "Http" /\ cfg_unix = TRUE /\ dialed = << >>
    /\ native_certs = [ok |-> FALSE, certs |-> << >>]
    /\ polled = << >> /\ reported = << >>

UdsIdle == uri_made = << >> /\ path_read = << >>

TagIdle == tags = << >> /\ tag_call = << >>

ClockIdle ==
    start_time = 0 /\ started_at = 0 /\ instant_now = 0 /\ times = << >>

ExporterIdle == ClockIdle /\ ConnectorIdle /\ UdsIdle /\ TagIdle

Init ==
    /\ \E b \in BuilderInputs : profile = build(b.sample_types, b.period)
    /\ returned = << >>
    /\ encoded = << >>
    /\ history = << >>
    /\ ExporterIdle

Record(op, arg, res) == [op |-> op, arg |-> arg, res |-> res]

Add(sample) ==
    /\ Len(history) < MaxOps
    /\ \E r \in {add(profile, sample)} :
        /\ profile' = r.p
        /\ history' = Append(history, Record("add", <<sample>>, r.res))
    /\ UNCHANGED <<returned, encoded, clockVars, connectorVars, udsVars, tagVars>>

Reset ==
    /\ Len(history) < MaxOps
    /\ \E r \in {reset(profile)} :
        /\ profile' = r.live
        /\ returned' = IF r.ok THEN Append(returned, r.prev) ELSE returned
        /\ history' = Append(history, Record("reset", << >>, [ok |-> r.ok, id |-> 0]))
    /\ UNCHANGED <<encoded, clockVars, connectorVars, udsVars, tagVars>>

\* A serialize that takes the samples out of the profile as it encodes them.
SerializeDraining ==
    /\ Len(history) < MaxOps
    /\ encoded' = <<PprofProfile(profile)>>
    /\ profile' = [profile EXCEPT !.samples = << >>]
    /\ history' = Append(history, Record("serialize", << >>, Ok(0)))
    /\ UNCHANGED <<returned, clockVars, connectorVars, udsVars, tagVars>>

Serialize ==
    /\ Len(history) < MaxOps
    /\ encoded' = <<PprofProfile(profile)>>
    /\ history' = Append(history, Record("serialize", << >>, Ok(0)))
    /\ UNCHANGED <<profile, returned, clockVars, connectorVars, udsVars, tagVars>>

Next ==
    \/ \E sample \in SampleInputs : Add(sample)
    \/ Reset
    \/ Serialize

Spec == Init /\ [][Next]_vars

\* The same profile fed with functions that differ in start_line only,
\* negative ones among them (api::Function::start_line is an i64).
FunctionAt(function, start_line) == [function EXCEPT !.start_line = start_line]

LocationOf(function) ==
    [mapping |-> MappingPhp, address |-> 0,
     lines |-> <<[function |-> function, line |-> 0]>>, is_folded |-> FALSE]

StartLineFunctions ==
    { FunctionMain, FunctionAt(FunctionMain, -1), FunctionAt(FunctionMain, -5),
      FunctionTest, FunctionAt(FunctionTest, -1) }

StartLineSampleInputs ==
    { [locations |-> <<LocationOf(function)>>, values |-> <<1>>,
       labels |-> << >>] : function \in StartLineFunctions }
    \cup
    { [locations |-> <<LocationOf(FunctionAt(FunctionMain, -1)),
                       LocationOf(FunctionTest)>>,
       values |-> <<1, 10000>>, labels |-> << >>] }

StartLineNext ==
    \/ \E sample \in StartLineSampleInputs : Add(sample)
    \/ Serialize

StartLineSpec == Init /\ [][StartLineNext]_vars

----------------------------------------------------------------------------
(* Reading the history.                                                    *)

LastOp == history[Len(history)]

\* The sample an add was called with.
Arg(i) == history[i].arg[1]

ResetIndexes ==
    {i \in 1..Len(history) : history[i].op = "reset" /\ history[i].res.ok}

LastResetIndex ==
    IF ResetIndexes = {} THEN 0
    ELSE CHOOSE i \in ResetIndexes : \A j \in ResetIndexes : j <= i

\* The calls made on the live profile since it was built or last reset.
SinceReset == {i \in 1..Len(history) : i > LastResetIndex}

\* The adds that were given the right number of values.
WellFormedAdds ==
    {i \in SinceReset : /\ history[i].op = "add"
                        /\ Len(Arg(i).values) = Len(profile.sample_types)}

\* The adds that returned a sample id (not the sentinel 0, not Full).
AcceptedAdds == {i \in WellFormedAdds : history[i].res.ok}

FullAdds == {i \in WellFormedAdds : ~history[i].res.ok}

ApiKey(i) == [locations |-> Arg(i).locations, labels |-> Arg(i).labels]

RECURSIVE SumAt(_, _)
SumAt(I, k) ==
    IF I = {} THEN 0
    ELSE Only({ Arg(i).values[k] + SumAt(I \ {i}, k) : i \in {CHOOSE j \in I : TRUE} })

\* The elementwise sum of the values of the accepted adds with i's key.
SummedValues(i) ==
    [k \in 1..Len(profile.sample_types) |->
        SumAt({j \in AcceptedAdds : ApiKey(j) = ApiKey(i)}, k)]

Sizes(p) ==
    <<Len(p.strings), Len(p.mappings), Len(p.functions), Len(p.locations),
      Len(p.samples)>>

----------------------------------------------------------------------------
(* ddprof-exporter, connector.rs, mod uds: a socket path as a unix URI.    *)
(* A path is the sequence of its bytes, a str the sequence of its          *)
(* characters, and a hyper::Uri the record of its scheme and authority     *)
(* (both Option) and of its path_and_query.                                *)

\* Longest socket path, and longest authority of a URI handed to the decoder.
MaxPathLen == 3
MaxAuthLen == 2

SeqsUpTo(S, n) == UNION {[1..k -> S] : k \in 0..n}

\* NUL, '/', 's' and a byte that is not UTF-8.
PathBytes == {0, 47, 115, 255}

PathInputs == SeqsUpTo(PathBytes, MaxPathLen)

\* The errors of errors.rs, and the error of the URI builder.
InvalidUrl == [ok |-> FALSE, err |-> "InvalidUrl"]
UnixSockeUnsuported == [ok |-> FALSE, err |-> "UnixSockeUnsuported"]
CannotEstablishTlsConnection == [ok |-> FALSE, err |-> "CannotEstablishTlsConnection"]
HttpError == [ok |-> FALSE, err |-> "http::Error"]

HexDigits ==
    <<"0", "1", "2", "3", "4", "5", "6", "7", "8", "9",
      "a", "b", "c", "d", "e", "f">>

UpperHexDigits ==
    <<"0", "1", "2", "3", "4", "5", "6", "7", "8", "9",
      "A", "B", "C", "D", "E", "F">>

\* An encoder that writes the digits in upper case.
HexEncodeUpper(bytes) ==
    [i \in 1..(2 * Len(bytes)) |->
        IF i % 2 = 1 THEN UpperHexDigits[(bytes[(i + 1) \div 2] \div 16) + 1]
        ELSE UpperHexDigits[(bytes[i \div 2] % 16) + 1]]

\* hex::encode: two lower-case digits per byte, high nibble first.
hex_encode(bytes) ==
    [i \in 1..(2 * Len(bytes)) |->
        IF i % 2 = 1 THEN HexDigits[(bytes[(i + 1) \div 2] \div 16) + 1]
        ELSE HexDigits[(bytes[i \div 2] % 16) + 1]]

\* The value of a hex digit of either case: Some(0..15), or None.
HexValue(c) ==
    IF \E d \in 1..16 : HexDigits[d] = c
    THEN <<(CHOOSE d \in 1..16 : HexDigits[d] = c) - 1>>
    ELSE IF \E d \in 1..16 : UpperHexDigits[d] = c
    THEN <<(CHOOSE d \in 1..16 : UpperHexDigits[d] = c) - 1>>
    ELSE << >>

\* hex::decode: an odd length is an error, then so is any character that is
\* not a hex digit; otherwise one byte per pair of digits.
hex_decode(str) ==
    IF Len(str) % 2 # 0
    THEN [ok |-> FALSE, err |-> "OddLength"]
    ELSE IF \E i \in 1..Len(str) : HexValue(str[i]) = << >>
    THEN [ok |-> FALSE, err |-> "InvalidHexCharacter"]
    ELSE [ok |-> TRUE,
          bytes |-> [i \in 1..(Len(str) \div 2) |->
                       16 * HexValue(str[2 * i - 1])[1] + HexValue(str[2 * i])[1]]]

\* Uri::builder().scheme(..).authority(..).path_and_query(..).build(): an
\* http::uri::Authority is never empty, so an empty authority is the error
\* build() returns.
UriBuild(scheme, authority, path_and_query) ==
    IF authority = << >>
    THEN HttpError
    ELSE [ok |-> TRUE,
          uri |-> [scheme |-> <<scheme>>, authority |-> <<authority>>,
                   path_and_query |-> path_and_query]]

socket_path_to_uri(path) == UriBuild("unix", hex_encode(path), << >>)

\* A decoder that takes the authority's characters for the path.
SocketPathFromUriUndecoded(uri) ==
    IF uri.scheme # <<"unix">> \/ uri.authority = << >>
    THEN InvalidUrl
    ELSE [ok |-> TRUE, path |-> uri.authority[1]]

socket_path_from_uri(uri) ==
    IF uri.scheme # <<"unix">>
    THEN InvalidUrl
    ELSE IF uri.authority = << >>
    THEN InvalidUrl
    ELSE Only({ IF ~d.ok THEN InvalidUrl ELSE [ok |-> TRUE, path |-> d.bytes] :
                d \in {hex_decode(uri.authority[1])} })

\* The URIs the decoder is handed: a URI with a scheme has an authority; a
\* URI without a scheme is an authority alone or a path alone.
AuthorityInputs == SeqsUpTo({"2", "f", "F", "g"}, MaxAuthLen) \ {<< >>}

UriInputs ==
    { [scheme |-> s, authority |-> <<a>>, path_and_query |-> << >>] :
      s \in {<<"unix">>, <<"http">>, <<"https">>, <<"ws">>, << >>},
      a \in AuthorityInputs }
    \cup {[scheme |-> << >>, authority |-> << >>, path_and_query |-> <<"/">>]}

\* The codec as a state machine: one encode of a path and one decode of a
\* URI, which may be the URI just made (the round trip of the tests).
UdsInit == ProfileIdle /\ ClockIdle /\ ConnectorIdle /\ TagIdle /\ UdsIdle

SocketPathToUri(path) ==
    /\ uri_made = << >>
    /\ path_read = << >>
    /\ uri_made' = <<[path |-> path, res |-> socket_path_to_uri(path)]>>
    /\ UNCHANGED <<path_read, profileVars, clockVars, connectorVars, tagVars>>

SocketPathFromUri(uri) ==
    /\ path_read = << >>
    /\ path_read' = <<[uri |-> uri, res |-> socket_path_from_uri(uri)]>>
    /\ UNCHANGED <<uri_made, profileVars, clockVars, connectorVars, tagVars>>

RoundTrip ==
    /\ uri_made # << >>
    /\ uri_made[1].res.ok
    /\ SocketPathFromUri(uri_made[1].res.uri)

UdsNext ==
    \/ \E path \in PathInputs : SocketPathToUri(path)
    \/ \E uri \in UriInputs : SocketPathFromUri(uri)
    \/ RoundTrip

UdsSpec == UdsInit /\ [][UdsNext]_vars

----------------------------------------------------------------------------
(* ddprof-exporter, connector.rs: MaybeHttpsConnector and its call, and    *)
(* the constructors of conn_stream.rs.  What the network does is an input  *)
(* of each call: the dial is refused, or it hands back a plaintext stream  *)
(* or a TLS stream.                                                        *)

\* Number of calls made on one connector.
MaxCalls == 2

\* rustls_native_certs::load_native_certs(): an error, or the certificates,
\* each one accepted by roots.add (TRUE) or not.
NativeCertsInputs ==
    { [ok |-> FALSE, certs |-> << >>], [ok |-> TRUE, certs |-> << >>],
      [ok |-> TRUE, certs |-> <<FALSE>>], [ok |-> TRUE, certs |-> <<TRUE>>],
      [ok |-> TRUE, certs |-> <<FALSE, TRUE>>] }

IsValidCert(cert) == cert

\* A load that gives up at the first certificate roots.add refuses.
LoadRootCertsAllOrNothing(native) ==
    IF ~native.ok \/ native.certs = << >>
          \/ SelectSeq(native.certs, IsValidCert) # native.certs
    THEN << >>
    ELSE <<native.certs>>

\* Option<RootCertStore>: the store of the accepted certificates.
load_root_certs(native) ==
    IF ~native.ok
    THEN << >>
    ELSE Only({ IF roots = << >> THEN << >> ELSE <<roots>> :
                roots \in {SelectSeq(native.certs, IsValidCert)} })

\* Option: the https_or_http connector over the loaded roots.
build_https_connector(native) ==
    IF load_root_certs(native) = << >> THEN << >> ELSE <<"Https">>

MaybeHttpsConnector_new(native) ==
    IF build_https_connector(native) # << >> THEN "Https" ELSE "Http"

\* The URIs call is handed.
CallUriInputs ==
    { [scheme |-> <<s>>, authority |-> <<a>>, path_and_query |-> << >>] :
      s \in {"unix", "https", "http"},
      a \in {<<"2", "f">>, <<"2">>, <<"g", "2">>} }

\* What the dial of a call can come to: UnixStream::connect and the
\* HttpConnector give an error or a plain stream, the HttpsConnector an
\* error, MaybeHttpsStream::Http or MaybeHttpsStream::Https.
NetOutcomes(conn, uri) ==
    IF uri.scheme = <<"unix">> \/ conn = "Http"
    THEN {"refused", "plain"}
    ELSE {"refused", "plain", "tls"}

IoError == [ok |-> FALSE, err |-> "io::Error"]

Stream(variant, peer) ==
    [ok |-> TRUE, stream |-> [variant |-> variant, peer |-> peer]]

\* conn_stream.rs: the three constructors of ConnStream.
from_uds_uri(unix, uri, net) ==
    IF unix
    THEN Only({ IF ~path.ok THEN path
                ELSE IF net = "refused" THEN IoError
                ELSE Stream("Udp", path.path) :
                path \in {socket_path_from_uri(uri)} })
    ELSE UnixSockeUnsuported

from_http_connector_with_uri(uri, net) ==
    IF net = "refused" THEN IoError ELSE Stream("Tcp", uri)

from_https_connector_with_uri(uri, require_tls, net) ==
    IF net = "refused" THEN IoError
    ELSE IF net = "plain"
    THEN IF require_tls THEN CannotEstablishTlsConnection ELSE Stream("Tcp", uri)
    ELSE Stream("Tls", uri)

\* The arms of call's match on uri.scheme_str().  Each gives the outcome and
\* which dial was made (UnixStream::connect, the HttpConnector, the
\* HttpsConnector) or none.
UnixArm(unix, uri, net) ==
    IF unix
    THEN Only({ IF ~path.ok
                THEN [res |-> path, dial |-> "none"]
                ELSE [res |-> IF net = "refused" THEN IoError
                              ELSE Stream("Udp", path.path),
                      dial |-> "unix"] :
                path \in {socket_path_from_uri(uri)} })
    ELSE [res |-> UnixSockeUnsuported, dial |-> "none"]

HttpsArm(conn, uri, net) ==
    IF conn = "Http"
    THEN [res |-> CannotEstablishTlsConnection, dial |-> "none"]
    ELSE [res |-> IF net = "refused" THEN IoError
                  ELSE IF net = "plain" THEN CannotEstablishTlsConnection
                  ELSE Stream("Tls", uri),
          dial |-> "https"]

OtherArm(conn, uri, net) ==
    IF conn = "Http"
    THEN [res |-> IF net = "refused" THEN IoError ELSE Stream("Tcp", uri),
          dial |-> "http"]
    ELSE [res |-> IF net = "refused" THEN IoError
                  ELSE IF net = "plain" THEN Stream("Tcp", uri)
                  ELSE Stream("Tls", uri),
          dial |-> "https"]

\* A call that looks at the connector before the scheme: an HTTP-only
\* connector hands a unix URI to its HttpConnector.
CallModeFirst(conn, unix, uri, net) ==
    IF conn = "Http" /\ uri.scheme # <<"https">>
    THEN OtherArm(conn, uri, net)
    ELSE IF uri.scheme = <<"unix">> THEN UnixArm(unix, uri, net)
    ELSE IF uri.scheme = <<"https">> THEN HttpsArm(conn, uri, net)
    ELSE OtherArm(conn, uri, net)

\* A call whose HTTPS-capable connector lets a plaintext stream through.
CallPlaintextAllowed(conn, unix, uri, net) ==
    IF uri.scheme = <<"unix">> THEN UnixArm(unix, uri, net)
    ELSE IF uri.scheme = <<"https">> /\ conn = "Http" THEN HttpsArm(conn, uri, net)
    ELSE OtherArm(conn, uri, net)

\* A call whose HTTP-only connector dials an https URI like any other.
CallHttpOnlyDialsHttps(conn, unix, uri, net) ==
    IF uri.scheme = <<"unix">> THEN UnixArm(unix, uri, net)
    ELSE IF uri.scheme = <<"https">> /\ conn = "Https" THEN HttpsArm(conn, uri, net)
    ELSE OtherArm(conn, uri, net)

\* <MaybeHttpsConnector as Service<Uri>>::call, with its future resolved.
call(conn, unix, uri, net) ==
    IF uri.scheme = <<"unix">> THEN UnixArm(unix, uri, net)
    ELSE IF uri.scheme = <<"https">> THEN HttpsArm(conn, uri, net)
    ELSE OtherArm(conn, uri, net)

\* The connector as a state machine: built by new(), then called.
ConnectorInit ==
    /\ \E native \in NativeCertsInputs :
          /\ native_certs = native
          /\ connector = MaybeHttpsConnector_new(native)
    /\ cfg_unix \in BOOLEAN
    /\ dialed = << >>
    /\ polled = << >> /\ reported = << >>
    /\ ProfileIdle /\ ClockIdle /\ UdsIdle /\ TagIdle

Call(uri, net) ==
    /\ Len(dialed) < MaxCalls
    /\ \E r \in {call(connector, cfg_unix, uri, net)} :
          dialed' = Append(dialed, [uri |-> uri, net |-> net,
                                    res |-> r.res, dial |-> r.dial])
    /\ UNCHANGED <<connector, cfg_unix, native_certs, polled, reported,
                   profileVars, clockVars, udsVars, tagVars>>

ConnectorNext ==
    \E uri \in CallUriInputs : \E net \in NetOutcomes(connector, uri) : Call(uri, net)

ConnectorSpec == ConnectorInit /\ [][ConnectorNext]_vars

----------------------------------------------------------------------------
(* ddprof-exporter, connector.rs: the rest of the Service and Connection   *)
(* impls.  poll_ready hands on what the connector underneath answers, and  *)
(* connected() reports on a stream that call has given out.  ConnStream    *)
(* and its connected() are defined twice, in connector.rs and in           *)
(* connector/conn_stream.rs.                                               *)

\* Poll<Result<(), E>>.
Pending == [ready |-> FALSE]

ReadyOk == [ready |-> TRUE, ok |-> TRUE]

ReadyErr(e) == [ready |-> TRUE, ok |-> FALSE, err |-> e]

\* The error of the HttpConnector, as it comes.
ConnectError == [kind |-> "ConnectError", boxed |-> FALSE]

\* Box<dyn Error + Sync + Send> around an error.
Boxed(e) == [e EXCEPT !.boxed = TRUE]

\* What the connector underneath can answer: the HttpConnector's error type
\* is its own, the HttpsConnector's is already boxed.
ReadinessInputs(conn) ==
    { Pending, ReadyOk,
      ReadyErr(IF conn = "Http" THEN ConnectError ELSE Boxed(ConnectError)) }

\* Poll::map_err(|e| e.into()).
map_err_into(poll) ==
    IF poll.ready /\ ~poll.ok THEN ReadyErr(Boxed(poll.err)) ELSE poll

\* <MaybeHttpsConnector as Service<Uri>>::poll_ready.
poll_ready(conn, inner) ==
    IF conn = "Http" THEN map_err_into(inner) ELSE inner

\* tls.alpn_protocol(): Option of the protocol the handshake settled on.
AlpnInputs == { << >>, <<"h2">>, <<"http/1.1">> }

\* hyper's Connected::new(): nothing negotiated, no extra.
Connected_new == [alpn |-> "None", is_proxied |-> FALSE, extra |-> << >>]

\* <TcpStream as Connection>::connected: the addresses of the peer as extra.
tcp_connected(peer) == [Connected_new EXCEPT !.extra = <<peer>>]

negotiated_h2(c) == [c EXCEPT !.alpn = "H2"]

\* connector/conn_stream.rs: <ConnStream as Connection>::connected.
conn_stream_connected(stream, alpn_protocol) ==
    IF stream.variant = "Tcp" THEN tcp_connected(stream.peer)
    ELSE IF stream.variant = "Tls" THEN tcp_connected(stream.peer)
    ELSE Connected_new

\* connector.rs: <ConnStream as Connection>::connected.
connected(stream, alpn_protocol) ==
    IF stream.variant = "Tcp" THEN tcp_connected(stream.peer)
    ELSE IF stream.variant = "Tls"
    THEN IF alpn_protocol = <<"h2">>
         THEN negotiated_h2(tcp_connected(stream.peer))
         ELSE tcp_connected(stream.peer)
    ELSE Connected_new

ConnectedDefinitions == {"connector.rs", "connector/conn_stream.rs"}

\* The URIs of the calls between poll_ready and connected().
ServiceUriInputs ==
    { uri \in CallUriInputs : uri.authority = << <<"2", "f">> >> }

PollReady(inner) ==
    /\ polled' = <<[inner |-> inner, res |-> poll_ready(connector, inner)]>>
    /\ UNCHANGED <<connector, cfg_unix, dialed, native_certs, reported,
                   profileVars, clockVars, udsVars, tagVars>>

\* connected() on the stream the latest call gave out; only a Tls stream has
\* a TLS session to ask for its ALPN protocol.
Connected(definition, alpn_protocol) ==
    /\ reported = << >>
    /\ dialed # << >>
    /\ dialed[Len(dialed)].res.ok
    /\ \E stream \in {dialed[Len(dialed)].res.stream} :
          /\ stream.variant # "Tls" => alpn_protocol = << >>
          /\ reported' =
                <<[definition |-> definition, stream |-> stream,
                   alpn_protocol |-> alpn_protocol,
                   report |-> IF definition = "connector.rs"
                              THEN connected(stream, alpn_protocol)
                              ELSE conn_stream_connected(stream, alpn_protocol)]>>
    /\ UNCHANGED <<connector, cfg_unix, dialed, native_certs, polled,
                   profileVars, clockVars, udsVars, tagVars>>

ServiceNext ==
    \/ \E inner \in ReadinessInputs(connector) : PollReady(inner)
    \/ \E uri \in ServiceUriInputs : \E net \in NetOutcomes(connector, uri) :
          Call(uri, net)
    \/ \E definition \in ConnectedDefinitions : \E alpn_protocol \in AlpnInputs :
          Connected(definition, alpn_protocol)

ServiceSpec == ConnectorInit /\ [][ServiceNext]_vars

----------------------------------------------------------------------------
(* ddprof-exporter tag.rs and ddprof-ffi tags.rs: Tag::new, the two        *)
(* parse_tag_chunk and the two parse_tags.  A str is the sequence of its   *)
(* characters; a message is the sequence of the pieces it was put          *)
(* together from (literals, and the characters of a chunk).                *)

\* Longest key pushed, and longest chunk or tag string parsed.
MaxKeyLen == 3
MaxTagLen == 4

REPLACEMENT_CHARACTER == "U+FFFD"

\* A byte that starts a 4-byte UTF-8 sequence and has nothing after it.
InvalidByte == "0xF7"

\* The characters of the strings parsed, and the bytes of the keys pushed.
TagChars == {"a", ":", ",", " ", REPLACEMENT_CHARACTER}

ByteChars == {"a", ":", " ", InvalidByte}

TagStrings == SeqsUpTo(TagChars, MaxTagLen)

\* "a:1,,b:2", "a:1 b:2", ":a a:,a" and "env:staging:east ,k".
ExampleTagStrings ==
    { <<"a", ":", "1", ",", ",", "b", ":", "2">>,
      <<"a", ":", "1", " ", "b", ":", "2">>,
      <<":", "a", " ", "a", ":", ",", "a">>,
      <<"e", "n", "v", ":", "s", "t", "a", "g", "i", "n", "g", ":", "e", "a",
        "s", "t", " ", ",", "k">> }

KeyInputs == SeqsUpTo(ByteChars, MaxKeyLen)

\* "", "a", "a:" (a value that ends with a colon), ":" and " ".
ValueInputs == {<< >>, <<"a">>, <<"a", ":">>, <<":">>, <<" ">>}

\* String::from_utf8_lossy: a byte that is no UTF-8 becomes U+FFFD.
from_utf8_lossy(bytes) ==
    [i \in 1..Len(bytes) |->
        IF bytes[i] = InvalidByte THEN REPLACEMENT_CHARACTER ELSE bytes[i]]

\* char::is_whitespace, on the characters above.
is_whitespace(c) == c \in {" ", "\t", "\n"}

\* The predicate of Tag::new's find.
IsValidChar(c) == c # REPLACEMENT_CHARACTER /\ ~is_whitespace(c)

TagOk(key, value) == [ok |-> TRUE, tag |-> [key |-> key, value |-> value]]
TagErr(message) == [ok |-> FALSE, err |-> message]

\* A Tag::new that tests the first character of the key for the colon.
TagNewLeadingColonOnly(key, value) ==
    IF key = << >>
    THEN TagErr(<<"tag key was empty">>)
    ELSE IF SelectSeq(key, IsValidChar) = << >>
    THEN TagErr(<<"tag contained only whitespace or invalid unicode characters">>)
    ELSE IF key[1] = ":"
    THEN TagErr(<<"tag cannot start with a colon">>)
    ELSE TagOk(key, value)

Tag_new(key, value) ==
    IF key = << >>
    THEN TagErr(<<"tag key was empty">>)
    ELSE Only({ IF valid = << >>
                THEN TagErr(<<"tag contained only whitespace or invalid unicode characters">>)
                ELSE IF valid[1] = ":"
                THEN TagErr(<<"tag cannot start with a colon">>)
                ELSE TagOk(key, value) :
                valid \in {SelectSeq(key, IsValidChar)} })

\* chunk.find(':'): Some(0-based position of the first colon), or None.
find_colon(chunk) ==
    IF \E i \in 1..Len(chunk) : chunk[i] = ":"
    THEN <<(CHOOSE i \in 1..Len(chunk) :
               chunk[i] = ":" /\ \A j \in 1..(i - 1) : chunk[j] # ":") - 1>>
    ELSE << >>

\* tag.rs: parse_tag_chunk.
parse_tag_chunk(chunk) ==
    Only({ IF first # << >>
           THEN IF first[1] = 0
                THEN TagErr(<<"tag cannot start with a colon">>)
                ELSE IF chunk[Len(chunk)] = ":"
                THEN TagErr(<<"tag cannot end with a colon">>)
                ELSE Tag_new(SubSeq(chunk, 1, first[1]),
                             SubSeq(chunk, first[1] + 2, Len(chunk)))
           ELSE Tag_new(chunk, << >>) :
           first \in {find_colon(chunk)} })

\* tags.rs: parse_tag_chunk, whose message quotes the chunk.
ffi_parse_tag_chunk(chunk) ==
    Only({ IF first # << >>
           THEN IF first[1] = 0
                THEN TagErr(<<"tag cannot start with a colon: \"">> \o chunk \o <<"\"">>)
                ELSE Tag_new(SubSeq(chunk, 1, first[1]),
                             SubSeq(chunk, first[1] + 2, Len(chunk)))
           ELSE Tag_new(chunk, << >>) :
           first \in {find_colon(chunk)} })

Separators == {",", " "}

\* str.split(&[',', ' '][..]): the pieces between the separators, the empty
\* ones included; a string without a separator is its only piece.
RECURSIVE split(_)
split(str) ==
    IF \E i \in 1..Len(str) : str[i] \in Separators
    THEN Only({ <<SubSeq(str, 1, i - 1)>> \o split(SubSeq(str, i + 1, Len(str))) :
                i \in {CHOOSE i \in 1..Len(str) :
                          /\ str[i] \in Separators
                          /\ \A j \in 1..(i - 1) : str[j] \notin Separators} })
    ELSE <<str>>

\* The predicate of parse_tags' filter.
IsNotEmpty(str) == str # << >>

\* The map of parse_tags: tag.rs's parse_tag_chunk, or tags.rs's.
ChunkParser(ffi, chunk) ==
    IF ffi THEN ffi_parse_tag_chunk(chunk) ELSE parse_tag_chunk(chunk)

\* The for loop of parse_tags over the results, and the Option it ends with.
RECURSIVE Collect(_, _, _, _)
Collect(ffi, chunks, tagsAcc, error_message) ==
    IF chunks = << >>
    THEN [tags |-> tagsAcc,
          error_message |-> IF error_message = << >> THEN << >>
                            ELSE <<error_message>>]
    ELSE Only({ IF result.ok
                THEN Collect(ffi, Tail(chunks), Append(tagsAcc, result.tag),
                             error_message)
                ELSE Collect(ffi, Tail(chunks), tagsAcc,
                             (IF error_message = << >>
                              THEN <<"Errors while parsing tags: ">>
                              ELSE error_message \o <<", ">>) \o result.err) :
                result \in {ChunkParser(ffi, Head(chunks))} })

\* A parse_tags that keeps the empty pieces of the split.
ParseTagsKeepingEmpty(str) == Collect(FALSE, split(str), << >>, << >>)

\* tag.rs: parse_tags.
parse_tags(str) == Collect(FALSE, SelectSeq(split(str), IsNotEmpty), << >>, << >>)

\* tags.rs: parse_tags.
ffi_parse_tags(str) == Collect(TRUE, SelectSeq(split(str), IsNotEmpty), << >>, << >>)

\* The tag functions as a state machine: one call, of any of them.
TagInit == ProfileIdle /\ ClockIdle /\ ConnectorIdle /\ UdsIdle /\ TagIdle

TagCall(op, arg, res) ==
    /\ tag_call = << >>
    /\ tag_call' = <<[op |-> op, arg |-> arg, res |-> res]>>
    /\ UNCHANGED <<profileVars, clockVars, connectorVars, udsVars>>

\* ddprof_ffi_Vec_tag_push.
VecTagPush(key, value) ==
    \E r \in {Tag_new(from_utf8_lossy(key), from_utf8_lossy(value))} :
       /\ TagCall("push", <<key, value>>, r)
       /\ tags' = IF r.ok THEN Append(tags, r.tag) ELSE tags

ParseTagChunk(chunk) ==
    TagCall("parse_tag_chunk", <<chunk>>, parse_tag_chunk(chunk)) /\ UNCHANGED tags

FfiParseTagChunk(chunk) ==
    TagCall("ffi_parse_tag_chunk", <<chunk>>, ffi_parse_tag_chunk(chunk))
    /\ UNCHANGED tags

ParseTags(str) ==
    TagCall("parse_tags", <<str>>, parse_tags(str)) /\ UNCHANGED tags

FfiParseTags(str) ==
    TagCall("ffi_parse_tags", <<str>>, ffi_parse_tags(str)) /\ UNCHANGED tags

TagNext ==
    \/ \E key \in KeyInputs : \E value \in ValueInputs : VecTagPush(key, value)
    \/ \E chunk \in TagStrings : ParseTagChunk(chunk)
    \/ \E chunk \in TagStrings : FfiParseTagChunk(chunk)
    \/ \E str \in TagStrings \cup ExampleTagStrings : ParseTags(str)
    \/ \E str \in TagStrings \cup ExampleTagStrings : FfiParseTags(str)

TagSpec == TagInit /\ [][TagNext]_vars

----------------------------------------------------------------------------
(* The clocks of the Profile.  Profile::new reads Instant::now() into      *)
(* started_at and SystemTime::now() into start_time (lib.rs:329-330); the  *)
(* pprof conversion turns them into time_nanos and duration_nanos.  No     *)
(* container operation reads these two fields and they read no container, *)
(* so they are a state machine of their own (ClockSpec), in which the      *)
(* containers stay those of Profile::new.  A SystemTime is the number of   *)
(* nanoseconds from the Unix epoch (negative before it), an Instant a      *)
(* number of nanoseconds on the monotonic clock.                           *)

\* The largest reading of either clock.
MaxNanos == 9

\* lib.rs:586 casts to i64 and lib.rs:591 converts to i64.  The width of
\* 64 bits is scaled down so that a reading can pass i64::MAX; the cast
\* and the conversion are the source's.
I64_BITS == 3

I64_MAX == 2^(I64_BITS - 1) - 1

I64_MIN == -(2^(I64_BITS - 1))

\* SystemTime::now(), before or after the epoch.
SystemTimeInputs == (-2)..MaxNanos

\* Instant::now().
InstantInputs == 0..MaxNanos

\* SystemTime::duration_since(UNIX_EPOCH) followed by Duration::as_nanos:
\* an error when the time is before the epoch.
duration_since_epoch(time) ==
    IF time < 0 THEN [ok |-> FALSE] ELSE [ok |-> TRUE, nanos |-> time]

\* u128 as i64: the low 64 bits, read as two's complement.
as_i64(nanos) ==
    IF (nanos % (2^I64_BITS)) > I64_MAX
    THEN (nanos % (2^I64_BITS)) - (2^I64_BITS)
    ELSE nanos % (2^I64_BITS)

\* i64::try_from(u128): an error when the value does not fit.
try_into_i64(nanos) ==
    IF nanos > I64_MAX THEN [ok |-> FALSE] ELSE [ok |-> TRUE, value |-> nanos]

\* Instant::elapsed(): the monotonic clock now, less the instant.
elapsed(instant, now) == now - instant

\* time_nanos of the conversion: .map_or(0, |d| d.as_nanos() as i64).
time_nanos(time) ==
    Only({ IF d.ok THEN as_i64(d.nanos) ELSE 0 : d \in {duration_since_epoch(time)} })

\* duration_nanos of the conversion: .try_into().unwrap_or(0).
duration_nanos(instant, now) ==
    Only({ IF r.ok THEN r.value ELSE 0 : r \in {try_into_i64(elapsed(instant, now))} })

\* Profile::new at the readings it takes of the two clocks.
ClockInit ==
    /\ start_time \in SystemTimeInputs
    /\ started_at \in InstantInputs
    /\ instant_now = started_at
    /\ times = << >>
    /\ ProfileIdle /\ ConnectorIdle /\ UdsIdle /\ TagIdle

\* serialize: the conversion reads the monotonic clock.
ClockSerialize(now) ==
    /\ now >= instant_now
    /\ instant_now' = now
    /\ times' = <<[start_time |-> start_time,
                   elapsed |-> elapsed(started_at, now),
                   time_nanos |-> time_nanos(start_time),
                   duration_nanos |-> duration_nanos(started_at, now)]>>
    /\ UNCHANGED <<start_time, started_at,
                   profileVars, connectorVars, udsVars, tagVars>>

\* reset: the fresh Profile takes new readings of both clocks.  (A reset
\* that returns None has built no Profile and read no clock.)
ClockReset(system_now, now) ==
    /\ now >= instant_now
    /\ instant_now' = now
    /\ start_time' = system_now
    /\ started_at' = now
    /\ UNCHANGED <<times, profileVars, connectorVars, udsVars, tagVars>>

ClockNext ==
    \/ \E now \in InstantInputs : ClockSerialize(now)
    \/ \E system_now \in SystemTimeInputs : \E now \in InstantInputs :
          ClockReset(system_now, now)

ClockSpec == ClockInit /\ [][ClockNext]_vars

----------------------------------------------------------------------------
(* Claims.                                                                 *)

\* C1: since the last reset, every add of a sample whose {locations, labels}
\* equal those of an earlier accepted add returns that add's sample id, the
\* sample map has one entry per distinct key, and the values stored for a key
\* are the elementwise sum of the values of the accepted adds with that key.
C1_AggregateSamples ==
    /\ \A i \in AcceptedAdds : \A j \in WellFormedAdds :
          (j > i /\ ApiKey(j) = ApiKey(i)) => history[j].res = history[i].res
    /\ Len(profile.samples) = Cardinality({ApiKey(i) : i \in AcceptedAdds})
    /\ \A i \in AcceptedAdds :
          profile.samples[history[i].res.id].values = SummedValues(i)

\* The statement of C1 for the adds that do not return Full.
AggregateWhenAccepted ==
    /\ \A i \in AcceptedAdds : \A j \in AcceptedAdds :
          (j > i /\ ApiKey(j) = ApiKey(i)) => history[j].res = history[i].res
    /\ Len(profile.samples) = Cardinality({ApiKey(i) : i \in AcceptedAdds})
    /\ \A i \in AcceptedAdds :
          profile.samples[history[i].res.id].values = SummedValues(i)

\* C2: an add whose number of values differs from the number of sample types
\* returns Ok(PProfId(0)) and leaves the whole profile as it was.
C2_MismatchMutatesNothing ==
    [][(LastOp'.op = "add"
        /\ Len(LastOp'.arg[1].values) # Len(profile.sample_types))
       => (LastOp'.res = Ok(0) /\ profile' = profile)]_vars

\* C2's case: a rejected add whose label key is not in the string table of a
\* profile that already holds a sample.
C2_Witness ==
    /\ history # << >>
    /\ LastOp.op = "add"
    /\ Len(LastOp.arg[1].values) # Len(profile.sample_types)
    /\ LastOp.res = Ok(0)
    /\ \E k \in 1..Len(LastOp.arg[1].labels) :
          ~Contains(profile.strings, LastOp.arg[1].labels[k].key)
    /\ profile.samples # << >>

\* C3: none of the dedup containers holds more than CONTAINER_MAX entries.
C3_ContainersWithinMax ==
    \A k \in 1..5 : Sizes(profile)[k] <= CONTAINER_MAX

\* C4: once an add has returned Full, no later add before a reset makes any
\* container larger.
C4_NoGrowthAfterFull ==
    [][(FullAdds # {} /\ LastOp'.op = "add")
       => \A k \in 1..5 : Sizes(profile')[k] <= Sizes(profile)[k]]_vars

\* C5: string id 0 resolves to the empty string in the live profile and in
\* every profile reset has returned.
C5_EmptyStringAtZero ==
    /\ get_string(profile, 0) = <<"">>
    /\ \A i \in 1..Len(returned) : get_string(returned[i], 0) = <<"">>

\* C5's case: a profile that went through add, reset and serialize.
C5_Witness ==
    /\ \E i \in 1..Len(history) : history[i].op = "add" /\ history[i].res.id > 0
    /\ \E i \in 1..Len(history) : history[i].op = "reset"
    /\ \E i \in 1..Len(history) : history[i].op = "serialize"
    /\ Len(profile.strings) > 1

\* C6: interning s twice returns the same id twice and the second call leaves
\* the table as the first left it; a hit returns the index s sits at and
\* changes nothing, a miss appends s and returns the previous length.
C6_InternIdempotent ==
    \A s \in Strings :
        \E r1 \in {intern(profile, s)} : \E r2 \in {intern(r1.p, s)} :
            /\ r2.id = r1.id
            /\ r2.p = r1.p
            /\ r1.p.strings[r1.id + 1] = s
            /\ (\E i \in 1..Len(profile.strings) : profile.strings[i] = s)
                  => r1.p = profile
            /\ (\A i \in 1..Len(profile.strings) : profile.strings[i] # s)
                  => /\ r1.p.strings = Append(profile.strings, s)
                     /\ r1.id = Len(profile.strings)

\* C6's case: a table that adds have grown, with a string add has interned
\* twice (a hit) and a string not yet interned (a miss).
C6_Witness ==
    /\ \E i \in AcceptedAdds : \E j \in AcceptedAdds :
          /\ i < j
          /\ Arg(i).labels # << >> /\ Arg(j).labels # << >>
          /\ Arg(i).labels[1].key = Arg(j).labels[1].key
    /\ \E s \in Strings : ~Contains(profile.strings, s)

\* Some(strings) of a ValueType whose ids resolve in p, None otherwise.
ResolvedValueType(p, vt) ==
    IF Resolves(p, vt) THEN <<ApiValueType(p, vt)>> ELSE << >>

ResolvedSampleTypes(p) ==
    [i \in 1..Len(p.sample_types) |-> ResolvedValueType(p, p.sample_types[i])]

ResolvedPeriodType(p) ==
    [i \in 1..Len(p.period_type) |-> ResolvedValueType(p, p.period_type[i])]

ResetJustSucceeded ==
    history # << >> /\ LastOp.op = "reset" /\ LastOp.res.ok

\* C7: right after a successful reset the live profile has the period of the
\* returned profile, and its period type and sample types resolve, through
\* its own table, to the strings the returned profile's resolve to.
C7_ResetKeepsTypesAndPeriod ==
    ResetJustSucceeded =>
        \E prev \in {returned[Len(returned)]} :
            /\ profile.period = prev.period
            /\ ResolvedPeriodType(profile) = ResolvedPeriodType(prev)
            /\ ResolvedSampleTypes(profile) = ResolvedSampleTypes(prev)
            /\ \A i \in 1..Len(prev.sample_types) :
                  ResolvedSampleTypes(prev)[i] # << >>

\* C7's case: a reset of a profile that has a period and holds samples.
C7_Witness ==
    /\ ResetJustSucceeded
    /\ returned[Len(returned)].period_type # << >>
    /\ returned[Len(returned)].period = 10000
    /\ returned[Len(returned)].samples # << >>

\* The strings of p's sample types and period type.
TypeStrings(p) ==
    UNION { {p.strings[p.sample_types[i].type_ + 1],
             p.strings[p.sample_types[i].unit + 1]} :
            i \in 1..Len(p.sample_types) }
    \cup UNION { {p.strings[p.period_type[i].type_ + 1],
                  p.strings[p.period_type[i].unit + 1]} :
                 i \in 1..Len(p.period_type) }

\* C8: right after a successful reset the mapping, location, function and
\* sample containers are empty, and the string table is the empty string at
\* id 0 followed by the type strings, each once, and nothing else.
C8_ResetEmptiesContainers ==
    ResetJustSucceeded =>
        /\ profile.mappings = << >>
        /\ profile.locations = << >>
        /\ profile.functions = << >>
        /\ profile.samples = << >>
        /\ profile.strings[1] = ""
        /\ {profile.strings[i] : i \in 1..Len(profile.strings)}
              = {""} \cup TypeStrings(returned[Len(returned)])
        /\ \A i, j \in 1..Len(profile.strings) :
              profile.strings[i] = profile.strings[j] => i = j

\* C8's case: a reset of a profile whose adds filled every container and
\* interned strings that are no type string.
C8_Witness ==
    /\ ResetJustSucceeded
    /\ \E prev \in {returned[Len(returned)]} :
          /\ prev.samples # << >> /\ prev.mappings # << >>
          /\ prev.functions # << >> /\ prev.locations # << >>
          /\ \E i \in 1..Len(prev.strings) :
                prev.strings[i] \notin ({""} \cup TypeStrings(prev))

\* C9: a successful reset returns the profile exactly as it was before the
\* call, and no later call changes a profile that reset has returned.
C9_ResetReturnsPrevious ==
    [][/\ \A i \in 1..Len(returned) : returned'[i] = returned[i]
       /\ (LastOp'.op = "reset" /\ LastOp'.res.ok)
             => /\ Len(returned') = Len(returned) + 1
                /\ returned'[Len(returned')] = profile]_vars

\* C9's case: two resets, each of a profile holding samples, so the first
\* returned profile has seen a later add and a later reset.
C9_Witness ==
    /\ Len(returned) = 2
    /\ returned[1].samples # << >>
    /\ returned[2].samples # << >>

\* C10: serialize leaves the profile as it was, so any add behaves after it
\* as it would have before it, and a serialize right after a serialize
\* encodes the same message.
C10_SerializeNonDestructive ==
    [][LastOp'.op = "serialize"
       => /\ profile' = profile
          /\ \A s \in SampleInputs : add(profile', s) = add(profile, s)
          /\ encoded' = <<PprofProfile(profile)>>
          /\ (history # << >> /\ LastOp.op = "serialize") => encoded' = encoded]_vars

\* C10's case: two serialize calls in a row on a profile holding a sample
\* that two adds were summed into.
C10_Witness ==
    /\ Len(history) >= 4
    /\ LastOp.op = "serialize"
    /\ history[Len(history) - 1].op = "serialize"
    /\ \E i \in AcceptedAdds : \E j \in AcceptedAdds :
          i < j /\ history[i].res = history[j].res

\* The string-table indexes a pprof message uses: sample types, period type,
\* mappings, functions and labels.
StringIndexes(m) ==
    UNION { {m.sample_type[i].type, m.sample_type[i].unit} :
            i \in 1..Len(m.sample_type) }
    \cup UNION { {m.period_type[i].type, m.period_type[i].unit} :
                 i \in 1..Len(m.period_type) }
    \cup UNION { {m.mapping[i].filename, m.mapping[i].build_id} :
                 i \in 1..Len(m.mapping) }
    \cup UNION { {m.function[i].name, m.function[i].system_name,
                  m.function[i].filename} : i \in 1..Len(m.function) }
    \cup UNION { UNION { {m.sample[i].label[j].key, m.sample[i].label[j].str,
                          m.sample[i].label[j].num_unit} :
                         j \in 1..Len(m.sample[i].label) } :
                 i \in 1..Len(m.sample) }

\* C11: in the pprof message of the live profile, the k-th mapping, location
\* and function (k counted from 1, the source's index + 1) carries id k, and
\* every reference resolves: a location's mapping_id names an emitted
\* mapping, a line's function_id an emitted function, a sample's location_id
\* an emitted location, and every string index lies inside string_table.
C11_PprofIdsResolve ==
    \A m \in {PprofProfile(profile)} :
       /\ \A i \in 1..Len(m.mapping) : m.mapping[i].id = i
       /\ \A i \in 1..Len(m.location) :
             /\ m.location[i].id = i
             /\ m.location[i].mapping_id \in 1..Len(m.mapping)
             /\ \A j \in 1..Len(m.location[i].line) :
                   m.location[i].line[j].function_id \in 1..Len(m.function)
       /\ \A i \in 1..Len(m.function) : m.function[i].id = i
       /\ \A i \in 1..Len(m.sample) :
             \A j \in 1..Len(m.sample[i].location_id) :
                m.sample[i].location_id[j] \in 1..Len(m.location)
       /\ \A s \in StringIndexes(m) : s \in 0..(Len(m.string_table) - 1)

\* C11's case: a profile with two mappings, a function, two locations, and
\* a sample of two locations with a label that has a unit.
C11_Witness ==
    /\ Len(profile.mappings) = 2
    /\ Len(profile.functions) = 1
    /\ Len(profile.locations) = 2
    /\ \E i \in 1..Len(profile.samples) :
          /\ Len(profile.samples[i].key.locations) = 2
          /\ \E j \in 1..Len(profile.samples[i].key.labels) :
                profile.samples[i].key.labels[j].num_unit # 0

\* s is t, or t with entries added at its end.
IsPrefix(s, t) == Len(s) <= Len(t) /\ \A i \in 1..Len(s) : s[i] = t[i]

\* The distinct {locations, labels} of the accepted adds since the reset.
AcceptedKeys == {ApiKey(j) : j \in AcceptedAdds}

\* The {locations, labels} of the latest call, an add.
LastKey == ApiKey(Len(history))

\* The encoder's sample at 1-based position id is the sample the api value
\* describes: its label keys and its locations' addresses.
EncodedAs(p, id, sample) ==
    \A e \in {PprofProfile(p).sample[id]} :
       /\ Len(e.label) = Len(sample.labels)
       /\ \A j \in 1..Len(e.label) :
             get_string(p, e.label[j].key) = <<sample.labels[j].key>>
       /\ Len(e.location_id) = Len(sample.locations)
       /\ \A j \in 1..Len(e.location_id) :
             p.locations[e.location_id[j]].address = sample.locations[j].address

\* C12: an add never moves what the containers hold: strings, mappings,
\* functions, locations and sample keys keep their index.  The add that is
\* accepted with the k-th distinct key since the reset returns id k and the
\* encoder's sample array then has k entries, the k-th being that sample; an
\* accepted add of a key seen before returns the id its first add returned,
\* and the encoder still has that sample at that position.
C12_IdsFollowInsertionOrder ==
    [][LastOp'.op = "add"
       => /\ IsPrefix(profile.strings, profile'.strings)
          /\ IsPrefix(profile.mappings, profile'.mappings)
          /\ IsPrefix(profile.functions, profile'.functions)
          /\ IsPrefix(profile.locations, profile'.locations)
          /\ IsPrefix(SampleKeys(profile), SampleKeys(profile'))
          /\ (Len(history') \in AcceptedAdds')
             => /\ IF LastKey' \in AcceptedKeys
                   THEN /\ \E j \in AcceptedAdds :
                             /\ ApiKey(j) = LastKey'
                             /\ history[j].res.id = LastOp'.res.id
                        /\ Len(profile'.samples) = Len(profile.samples)
                   ELSE /\ LastOp'.res.id = Cardinality(AcceptedKeys) + 1
                        /\ Len(profile'.samples) = LastOp'.res.id
                /\ EncodedAs(profile', LastOp'.res.id, LastOp'.arg[1])]_vars

\* C12's case: three distinct keys accepted as 1, 2, 3 and then the first
\* key again, accepted as 1.
C12_Witness ==
    /\ Len(history) = 4
    /\ AcceptedAdds = 1..4
    /\ <<history[1].res.id, history[2].res.id, history[3].res.id,
         history[4].res.id>> = <<1, 2, 3, 1>>
    /\ \E i \in 1..Len(profile.samples) : profile.samples[i].key.locations # << >>

\* The calls made with a URI of the given scheme.
CallsOf(scheme) == {i \in 1..Len(dialed) : dialed[i].uri.scheme = <<scheme>>}

IsStream(res, variant) == res.ok /\ res.stream.variant = variant

\* C13: a call with an https URI never resolves to a Tcp stream: an
\* HTTP-only connector fails with CannotEstablishTlsConnection; an
\* HTTPS-capable connector yields the Tls stream or fails, with
\* CannotEstablishTlsConnection when its HttpsConnector hands back a
\* plaintext stream, as from_https_connector_with_uri does when it is told
\* to require TLS.
C13_HttpsNeverPlaintext ==
    \A i \in CallsOf("https") :
       \A c \in {dialed[i]} :
          /\ ~IsStream(c.res, "Tcp")
          /\ connector = "Http" => c.res = CannotEstablishTlsConnection
          /\ connector = "Https"
                => /\ c.res = Stream("Tls", c.uri) \/ ~c.res.ok
                   /\ c.net = "plain" => c.res = CannotEstablishTlsConnection
                   /\ c.res = from_https_connector_with_uri(c.uri, TRUE, c.net)

\* C13's case: an HTTPS-capable connector was handed a plaintext stream for
\* an https URI, after a call that yielded a Tls stream.
C13_Witness ==
    /\ connector = "Https"
    /\ Len(dialed) = 2
    /\ CallsOf("https") = {1, 2}
    /\ IsStream(dialed[1].res, "Tls")
    /\ dialed[2].net = "plain"
    /\ dialed[2].res = CannotEstablishTlsConnection

\* C14 as claimed: a call with an https URI fails with
\* CannotEstablishTlsConnection if and only if the connector is HTTP-only.
C14_RejectsIffHttpOnly ==
    \A i \in CallsOf("https") :
       (dialed[i].res = CannotEstablishTlsConnection) <=> (connector = "Http")

\* C14 amended: an HTTP-only connector fails every call with an https URI
\* with CannotEstablishTlsConnection, without a dial; an HTTPS-capable
\* connector fails one with that error exactly when its HttpsConnector
\* hands back a plaintext stream.
C14_RejectsHttpOnlyOrPlaintext ==
    \A i \in CallsOf("https") :
       \A c \in {dialed[i]} :
          /\ connector = "Http"
                => c.res = CannotEstablishTlsConnection /\ c.dial = "none"
          /\ connector = "Https"
                => ((c.res = CannotEstablishTlsConnection) <=> (c.net = "plain"))

\* C14's case: an HTTP-only connector refused two https URIs.
C14_Witness ==
    /\ connector = "Http"
    /\ Len(dialed) = 2
    /\ CallsOf("https") = {1, 2}
    /\ dialed[1].uri # dialed[2].uri
    /\ dialed[2].res = CannotEstablishTlsConnection

LowerHexOf(str, bytes) ==
    /\ Len(str) = 2 * Len(bytes)
    /\ \A i \in 1..Len(bytes) :
          \E hi \in 0..15 : \E lo \in 0..15 :
             /\ bytes[i] = 16 * hi + lo
             /\ str[2 * i - 1] = HexDigits[hi + 1]
             /\ str[2 * i] = HexDigits[lo + 1]

\* The made URI is a unix URI of the path's hex, and a decode of that URI
\* gave the path back.
MadeAndReadBack(c) ==
    /\ c.res.ok
    /\ c.res.uri.scheme = <<"unix">>
    /\ c.res.uri.authority # << >>
    /\ LowerHexOf(c.res.uri.authority[1], c.path)
    /\ (path_read # << >> /\ path_read[1].uri = c.res.uri)
          => path_read[1].res = [ok |-> TRUE, path |-> c.path]

\* C16 as claimed: for every path (the model's paths are far shorter than
\* 108 bytes), the empty path included, socket_path_to_uri succeeds with a
\* unix URI whose authority is the lower-case hex of the path, and
\* socket_path_from_uri of that URI returns the path.
C16_RoundTripAnyPath ==
    uri_made # << >> => MadeAndReadBack(uri_made[1])

\* C16 amended: the same for every path of at least one byte.
C16_RoundTripNonEmptyPath ==
    (uri_made # << >> /\ uri_made[1].path # << >>) => MadeAndReadBack(uri_made[1])

\* C16's case: a path of NUL, '/' and a non-UTF-8 byte was encoded and the
\* URI decoded again.
C16_Witness ==
    /\ uri_made # << >>
    /\ uri_made[1].path = <<0, 47, 255>>
    /\ path_read # << >>
    /\ path_read[1].uri = uri_made[1].res.uri

IsHexChar(c) ==
    c \in {"0", "1", "2", "3", "4", "5", "6", "7", "8", "9", "a", "b", "c",
           "d", "e", "f", "A", "B", "C", "D", "E", "F"}

\* The three checks: the scheme is unix, there is an authority, and the
\* authority is an even number of hex digits.
PassesUdsChecks(uri) ==
    /\ uri.scheme = <<"unix">>
    /\ uri.authority # << >>
    /\ Len(uri.authority[1]) % 2 = 0
    /\ \A i \in 1..Len(uri.authority[1]) : IsHexChar(uri.authority[1][i])

\* C17: socket_path_from_uri returns a path exactly when the URI passes the
\* three checks, and the InvalidUrl error, and no path, otherwise.
C17_InvalidUrl ==
    path_read # << >>
    => \A c \in {path_read[1]} :
          /\ c.res.ok <=> PassesUdsChecks(c.uri)
          /\ ~c.res.ok => c.res = InvalidUrl

\* C17's case: a unix URI whose authority has a character that is no hex
\* digit was refused.
C17_Witness ==
    /\ path_read # << >>
    /\ path_read[1].uri.scheme = <<"unix">>
    /\ path_read[1].uri.authority = <<(<<"g", "2">>)>>
    /\ path_read[1].res = InvalidUrl

\* The latest tag call was of op.
TagCalled(op) == tag_call # << >> /\ tag_call[1].op = op

\* Neither whitespace nor the replacement character.
Meaningful(c) == c \notin {" ", "\t", "\n", REPLACEMENT_CHARACTER}

\* A push comes out the same whatever the value, and the Vec holds the tag
\* exactly when the push was accepted.
PushIgnoresValue(c) ==
    \A key \in {from_utf8_lossy(c.arg[1])} :
       /\ \A value \in ValueInputs : Tag_new(key, value).ok = c.res.ok
       /\ tags = IF c.res.ok
                 THEN <<[key |-> key, value |-> from_utf8_lossy(c.arg[2])]>>
                 ELSE << >>

\* C18 as claimed: Tag::new(k, v) succeeds if and only if k is not empty,
\* has a character that is neither whitespace nor U+FFFD, and does not
\* begin with ':'; v has no say.
C18_AcceptsUnlessBeginsWithColon ==
    TagCalled("push")
    => \A c \in {tag_call[1]} :
          \A key \in {from_utf8_lossy(c.arg[1])} :
             /\ c.res.ok <=> /\ key # << >>
                             /\ \E i \in 1..Len(key) : Meaningful(key[i])
                             /\ key[1] # ":"
             /\ PushIgnoresValue(c)

\* C18 amended: Tag::new(k, v) succeeds if and only if k has a character
\* that is neither whitespace nor U+FFFD and the first such character is
\* not ':'; v has no say.
C18_AcceptsUnlessFirstValidIsColon ==
    TagCalled("push")
    => \A c \in {tag_call[1]} :
          \A key \in {from_utf8_lossy(c.arg[1])} :
             /\ c.res.ok <=> \E i \in 1..Len(key) :
                                /\ Meaningful(key[i])
                                /\ key[i] # ":"
                                /\ \A j \in 1..(i - 1) : ~Meaningful(key[j])
             /\ PushIgnoresValue(c)

\* C18's case: a key of a space and a colon was refused, with a value that
\* ends in a colon.
C18_Witness ==
    /\ TagCalled("push")
    /\ tag_call[1].arg = << <<" ", ":", "a">>, <<"a", ":">> >>
    /\ tag_call[1].res = TagErr(<<"tag cannot start with a colon">>)

\* The 1-based positions of the colons of a chunk.
Colons(chunk) == {i \in 1..Len(chunk) : chunk[i] = ":"}

FirstColon(chunk) == CHOOSE i \in Colons(chunk) : \A j \in Colons(chunk) : i <= j

\* The part of a chunk before its first colon: the whole chunk without one.
KeyPart(chunk) ==
    IF Colons(chunk) = {} THEN chunk ELSE SubSeq(chunk, 1, FirstColon(chunk) - 1)

\* C19: both chunk parsers follow the case table, on every chunk whose key
\* part Tag::new accepts or that begins with ':': a chunk that begins with
\* ':' is an error; a chunk whose first ':' is its last character is an
\* error; a chunk without ':' is the tag (chunk, ""); any other chunk is
\* the tag (key, rest), rest being all that follows the first ':'.
C19_ChunkCaseTable ==
    (TagCalled("parse_tag_chunk") \/ TagCalled("ffi_parse_tag_chunk"))
    => \A c \in {tag_call[1]} :
          \A chunk \in {c.arg[1]} :
             (chunk # << >> /\ (chunk[1] = ":" \/ Tag_new(KeyPart(chunk), << >>).ok))
             => IF chunk[1] = ":" THEN ~c.res.ok
                ELSE IF Colons(chunk) = {} THEN c.res = TagOk(chunk, << >>)
                ELSE IF FirstColon(chunk) = Len(chunk) THEN ~c.res.ok
                ELSE c.res = TagOk(KeyPart(chunk),
                                   SubSeq(chunk, FirstColon(chunk) + 1, Len(chunk)))

\* The non-empty chunks of a string: its maximal runs of characters that are
\* no separators, in the order of the string.
RunStarts(str) ==
    {i \in 1..Len(str) :
        str[i] \notin Separators /\ (i = 1 \/ str[i - 1] \in Separators)}

RunEnd(str, i) ==
    CHOOSE j \in i..Len(str) :
        /\ \A k \in i..j : str[k] \notin Separators
        /\ j = Len(str) \/ str[j + 1] \in Separators

Runs(str) ==
    [n \in 1..Cardinality(RunStarts(str)) |->
        Only({ SubSeq(str, i, RunEnd(str, i)) :
               i \in {CHOOSE i \in RunStarts(str) :
                         Cardinality({j \in RunStarts(str) : j < i}) = n - 1} })]

IsTag(result) == result.ok
IsError(result) == ~result.ok

RECURSIVE JoinErrors(_)
JoinErrors(errors) ==
    IF Len(errors) = 1 THEN errors[1].err
    ELSE errors[1].err \o <<", ">> \o JoinErrors(Tail(errors))

\* What the claim says parse_tags returns for these chunk results.
ExpectedOfResults(results) ==
    [tags |-> [i \in 1..Len(SelectSeq(results, IsTag)) |->
                 SelectSeq(results, IsTag)[i].tag],
     error_message |->
        IF SelectSeq(results, IsError) = << >> THEN << >>
        ELSE << <<"Errors while parsing tags: ">>
                \o JoinErrors(SelectSeq(results, IsError)) >>]

\* Each separator twice, and each separator turned into the other one.
RECURSIVE Doubled(_)
Doubled(str) ==
    IF str = << >> THEN << >>
    ELSE (IF Head(str) \in Separators THEN <<Head(str), Head(str)>>
          ELSE <<Head(str)>>) \o Doubled(Tail(str))

Swapped(str) ==
    [i \in 1..Len(str) |->
        IF str[i] = "," THEN " " ELSE IF str[i] = " " THEN "," ELSE str[i]]

\* C20: parse_tags (of tag.rs, and of tags.rs with its chunk parser) returns
\* the tags of the well-formed non-empty chunks in the order of the string,
\* and an error message exactly when a chunk is malformed: "Errors while
\* parsing tags: " and then the chunks' errors in order, joined by ", ".
\* Doubling the separators or turning each into the other changes nothing,
\* and "a:1,,b:2" gives [(a,1),(b,2)] and no message.
C20_ParseTags ==
    (TagCalled("parse_tags") \/ TagCalled("ffi_parse_tags"))
    => \A c \in {tag_call[1]} :
          \A ffi \in {c.op = "ffi_parse_tags"} :
             /\ c.res = ExpectedOfResults([n \in 1..Len(Runs(c.arg[1])) |->
                                             ChunkParser(ffi, Runs(c.arg[1])[n])])
             /\ c.res.error_message # << >>
                   <=> \E n \in 1..Len(Runs(c.arg[1])) :
                          ~ChunkParser(ffi, Runs(c.arg[1])[n]).ok
             /\ ~ffi => /\ parse_tags(Doubled(c.arg[1])) = c.res
                        /\ parse_tags(Swapped(c.arg[1])) = c.res
             /\ ffi => /\ ffi_parse_tags(Doubled(c.arg[1])) = c.res
                       /\ ffi_parse_tags(Swapped(c.arg[1])) = c.res
             /\ c.arg[1] \in {<<"a", ":", "1", ",", ",", "b", ":", "2">>,
                               <<"a", ":", "1", " ", "b", ":", "2">>}
                   => c.res = [tags |-> <<[key |-> <<"a">>, value |-> <<"1">>],
                                          [key |-> <<"b">>, value |-> <<"2">>]>>,
                               error_message |-> << >>]

\* C20's case: ":a a:,a" parsed by tag.rs gave one tag and the message of
\* two malformed chunks.
C20_Witness ==
    /\ TagCalled("parse_tags")
    /\ tag_call[1].arg = << <<":", "a", " ", "a", ":", ",", "a">> >>
    /\ Len(tag_call[1].res.tags) = 1
    /\ tag_call[1].res.error_message =
          << <<"Errors while parsing tags: ", "tag cannot start with a colon",
               ", ", "tag cannot end with a colon">> >>

\* The report C21 describes for a stream whose TLS session settled on
\* alpn_protocol.
ExpectedReport(stream, alpn_protocol) ==
    IF stream.variant = "Udp"
    THEN [alpn |-> "None", is_proxied |-> FALSE, extra |-> << >>]
    ELSE [alpn |-> IF stream.variant = "Tls" /\ alpn_protocol = <<"h2">>
                   THEN "H2" ELSE "None",
          is_proxied |-> FALSE,
          extra |-> <<stream.peer>>]

\* C21: the connection report of a Tls stream is the TCP stream's report,
\* marked as HTTP/2 exactly when ALPN negotiated h2; a Tcp stream reports
\* the transport's own report and a UNIX stream the default one; and this
\* for every definition of connected() (connector.rs and conn_stream.rs).
C21_ConnectedReport ==
    \A i \in 1..Len(reported) :
        reported[i].report =
            ExpectedReport(reported[i].stream, reported[i].alpn_protocol)

\* The same for the definition of connector.rs alone.
C21_ConnectorRsReport ==
    \A i \in 1..Len(reported) :
        reported[i].definition = "connector.rs"
            => reported[i].report =
                   ExpectedReport(reported[i].stream, reported[i].alpn_protocol)

\* C22: building the connector never fails; it is HTTPS-capable exactly when
\* loading the native roots succeeded and at least one certificate was added
\* to the store, and HTTP-only when loading fails, gives no certificate or
\* every certificate is refused; refused certificates next to an accepted
\* one do not prevent HTTPS.
C22_HttpsIffSomeRootAdded ==
    /\ connector \in {"Http", "Https"}
    /\ connector = "Https"
          <=> /\ native_certs.ok
              /\ \E i \in 1..Len(native_certs.certs) : native_certs.certs[i]

\* Built from one refused and one accepted certificate, and an https call
\* has come back with a TLS stream.
C22_Witness ==
    /\ native_certs = [ok |-> TRUE, certs |-> <<FALSE, TRUE>>]
    /\ connector = "Https"
    /\ \E i \in CallsOf("https") : IsStream(dialed[i].res, "Tls")

\* The readiness poll_ready returned is the one the connector underneath
\* answered: pending, ready, or failed with the same error.
SameReadiness(inner, res) ==
    /\ res.ready = inner.ready
    /\ inner.ready => res.ok = inner.ok
    /\ inner.ready /\ ~inner.ok => res.err.kind = inner.err.kind

ReadinessFailed == polled # << >> /\ polled[1].res.ready /\ ~polled[1].res.ok

\* C23: poll_ready returns exactly the readiness of the underlying HTTP or
\* HTTPS connector, and a connector whose poll_ready has failed does not
\* accept a subsequent call: no call on it (whatever the scheme) starts a
\* connection or yields a stream.
C23_FailedReadinessRefusesCall ==
    [][ /\ \A i \in 1..Len(polled') :
              SameReadiness(polled'[i].inner, polled'[i].res)
        /\ ReadinessFailed /\ Len(dialed') > Len(dialed)
              => /\ dialed'[Len(dialed')].dial = "none"
                 /\ ~dialed'[Len(dialed')].res.ok ]_vars

\* The first half of C23 alone: poll_ready hands on the readiness of the
\* connector underneath.
C23_PollReadyDelegates ==
    \A i \in 1..Len(polled) : SameReadiness(polled[i].inner, polled[i].res)

\* C24: the encoded time_nanos is the number of nanoseconds from the Unix
\* epoch to start_time when that number fits in an i64, and 0 both when
\* start_time is before the epoch and when the number does not fit; it is
\* never a wrapped or negative value.
C24_TimeNanosOrZero ==
    \A i \in 1..Len(times) :
        /\ times[i].time_nanos >= 0
        /\ times[i].time_nanos =
              IF times[i].start_time >= 0 /\ times[i].start_time <= I64_MAX
              THEN times[i].start_time
              ELSE 0

\* C25: the encoded duration_nanos is the time elapsed on the monotonic
\* clock since started_at, and saturates: when the elapsed nanoseconds
\* pass i64::MAX the value is i64::MAX, not 0 and not a wrapped value.
C25_DurationNanosSaturates ==
    \A i \in 1..Len(times) :
        times[i].duration_nanos =
            IF times[i].elapsed <= I64_MAX THEN times[i].elapsed ELSE I64_MAX

\* The functions of the sample an accepted add was called with, each with
\* the id the profile holds it under: location by location, line by line.
FunctionsOf(i) ==
    { [function |-> Arg(i).locations[j].lines[k].function,
       id |-> profile.locations[
                  profile.samples[history[i].res.id].key.locations[j]
              ].lines[k].function_id] :
      j \in 1..Len(Arg(i).locations), k \in {1} }

AcceptedFunctions == UNION { FunctionsOf(i) : i \in AcceptedAdds }

SameButStartLine(f, g) ==
    /\ f.name = g.name
    /\ f.system_name = g.system_name
    /\ f.filename = g.filename

\* C26: a function's start_line is stored as 0 for every negative input,
\* so two functions that agree on name, system_name and filename and whose
\* start_line values are both negative, or one negative and one 0, get the
\* same function id; and the start_line the encoder emits is never negative.
C26_NegativeStartLineIsZero ==
    /\ \A f \in AcceptedFunctions :
          /\ f.id \in 1..Len(profile.functions)
          /\ f.function.start_line < 0
                => profile.functions[f.id].start_line = 0
          /\ \A g \in AcceptedFunctions :
                /\ SameButStartLine(f.function, g.function)
                /\ f.function.start_line <= 0
                /\ g.function.start_line <= 0
                => f.id = g.id
    /\ \A i \in 1..Len(encoded) : \A k \in 1..Len(encoded[i].function) :
          encoded[i].function[k].start_line >= 0

\* C26's case: the same function accepted with start_line -1, -5 and 0 under
\* one id, stored and encoded with start_line 0, next to another function.
C26_Witness ==
    /\ \E f, g, h \in AcceptedFunctions :
          /\ f.function = FunctionAt(FunctionMain, -1)
          /\ g.function = FunctionAt(FunctionMain, -5)
          /\ h.function = FunctionMain
          /\ f.id = g.id /\ g.id = h.id
          /\ encoded # << >>
          /\ Len(encoded[1].function) >= f.id
          /\ encoded[1].function[f.id].start_line = 0

NoDuplicates(set) ==
    \A i, j \in 1..Len(set) : set[i] = set[j] => i = j

\* What the live profile holds, with every id followed to what it stands
\* for: the api tuples the entries were made from.
StoredString(id) == profile.strings[id + 1]

StoredOption(id) == IF id = 0 THEN << >> ELSE <<StoredString(id)>>

StoredMapping(id) ==
    [memory_start |-> profile.mappings[id].memory_start,
     memory_limit |-> profile.mappings[id].memory_limit,
     file_offset |-> profile.mappings[id].file_offset,
     filename |-> StoredString(profile.mappings[id].filename),
     build_id |-> StoredString(profile.mappings[id].build_id)]

StoredFunction(id) ==
    [name |-> StoredString(profile.functions[id].name),
     system_name |-> StoredString(profile.functions[id].system_name),
     filename |-> StoredString(profile.functions[id].filename),
     start_line |-> profile.functions[id].start_line]

StoredLocation(id) ==
    [mapping |-> StoredMapping(profile.locations[id].mapping_id),
     address |-> profile.locations[id].address,
     lines |-> [k \in 1..Len(profile.locations[id].lines) |->
                  [function |->
                      StoredFunction(profile.locations[id].lines[k].function_id),
                   line |-> profile.locations[id].lines[k].line]],
     is_folded |-> profile.locations[id].is_folded]

StoredLabel(label) ==
    [key |-> StoredString(label.key), str |-> StoredOption(label.str),
     num |-> label.num, num_unit |-> StoredOption(label.num_unit)]

StoredKey(id) ==
    [locations |-> [j \in 1..Len(profile.samples[id].key.locations) |->
                      StoredLocation(profile.samples[id].key.locations[j])],
     labels |-> [j \in 1..Len(profile.samples[id].key.labels) |->
                   StoredLabel(profile.samples[id].key.labels[j])]]

StoredStrings == {profile.strings[i] : i \in 1..Len(profile.strings)}

StoredMappings == {StoredMapping(i) : i \in 1..Len(profile.mappings)}

StoredFunctions == {StoredFunction(i) : i \in 1..Len(profile.functions)}

StoredLocations == {StoredLocation(i) : i \in 1..Len(profile.locations)}

StoredKeys == {StoredKey(i) : i \in 1..Len(profile.samples)}

\* The distinct tuples the adds I were called with.
LocationsAdded(I) ==
    UNION { {Arg(i).locations[j] : j \in 1..Len(Arg(i).locations)} : i \in I }

LabelsAdded(I) ==
    UNION { {Arg(i).labels[j] : j \in 1..Len(Arg(i).labels)} : i \in I }

KeysAdded(I) == {ApiKey(i) : i \in I}

MappingsIn(locations) == {location.mapping : location \in locations}

FunctionsIn(locations) ==
    UNION { {location.lines[k].function : k \in 1..Len(location.lines)} :
            location \in locations }

\* The strings of locations and labels, with the strings every profile has
\* from its build: the empty string and those of its types.
StringsIn(locations, labels) ==
    {""} \cup TypeStrings(profile)
    \cup UNION { {l.mapping.filename, l.mapping.build_id} : l \in locations }
    \cup UNION { {f.name, f.system_name, f.filename} :
                 f \in FunctionsIn(locations) }
    \cup UNION { {l.key} \cup {l.str[n] : n \in 1..Len(l.str)}
                         \cup {l.num_unit[n] : n \in 1..Len(l.num_unit)} :
                 l \in labels }

\* A container holds one entry per distinct tuple: every tuple of an
\* accepted add, and beyond those only tuples of the adds that stopped
\* part-way with Full.
OnePerTuple(length, stored, accepted, offered) ==
    /\ length = Cardinality(stored)
    /\ accepted \subseteq stored
    /\ stored \subseteq offered

\* OnePerTuple for each container, given the locations and labels of the
\* accepted adds and of all the adds that passed the length test.
OnePerTupleEach(accepted, offered) ==
    /\ OnePerTuple(Len(profile.strings), StoredStrings,
                   StringsIn(accepted.locations, accepted.labels),
                   StringsIn(offered.locations, offered.labels))
    /\ OnePerTuple(Len(profile.mappings), StoredMappings,
                   MappingsIn(accepted.locations), MappingsIn(offered.locations))
    /\ OnePerTuple(Len(profile.functions), StoredFunctions,
                   FunctionsIn(accepted.locations),
                   FunctionsIn(offered.locations))
    /\ OnePerTuple(Len(profile.locations), StoredLocations,
                   accepted.locations, offered.locations)
    /\ OnePerTuple(Len(profile.samples), StoredKeys, accepted.keys,
                   accepted.keys)

TuplesAdded(I) ==
    [locations |-> LocationsAdded(I), labels |-> LabelsAdded(I),
     keys |-> KeysAdded(I)]

LocationStrings(sample) ==
    UNION { {sample.locations[j].mapping.filename,
             sample.locations[j].mapping.build_id}
            \cup UNION { {sample.locations[j].lines[k].function.name,
                          sample.locations[j].lines[k].function.system_name,
                          sample.locations[j].lines[k].function.filename} :
                         k \in 1..Len(sample.locations[j].lines) } :
            j \in 1..Len(sample.locations) } \ {""}

LabelStrings(sample) ==
    UNION { {sample.labels[j].key}
            \cup {sample.labels[j].str[n] : n \in 1..Len(sample.labels[j].str)}
            \cup {sample.labels[j].num_unit[n] :
                  n \in 1..Len(sample.labels[j].num_unit)} :
            j \in 1..Len(sample.labels) } \ {""}

AllStringsNew(sample) ==
    \A s \in LocationStrings(sample) \cup LabelStrings(sample) :
        ~Contains(profile.strings, s)

\* C28: within one add the locations are processed first and the label
\* strings are interned afterwards, so when all of the sample's strings are
\* new the mapping and function strings have lower string-table ids than
\* the label strings.
C28_LocationStringsBeforeLabelStrings ==
    [][ ( /\ LastOp'.op = "add"
          /\ Len(history') \in AcceptedAdds'
          /\ AllStringsNew(LastOp'.arg[1]) )
        => \A s \in LocationStrings(LastOp'.arg[1]) :
              \A t \in LabelStrings(LastOp'.arg[1]) :
                 IndexOf(profile'.strings, s) < IndexOf(profile'.strings, t) ]_vars

ResetCalls == {i \in 1..Len(history) : history[i].op = "reset"}

\* C29: for every profile reachable from the builder through add, serialize
\* and reset, reset succeeds: it returns the previous profile, never None,
\* and the FFI reset returns true, because every string id of the sample
\* types and of the period type resolves in the profile's own string table.
C29_ResetAlwaysSucceeds ==
    /\ \A i \in ResetCalls : history[i].res.ok
    /\ Len(returned) = Cardinality(ResetCalls)
    /\ \A i \in 1..Len(profile.sample_types) :
          Resolves(profile, profile.sample_types[i])
    /\ \A i \in 1..Len(profile.period_type) :
          Resolves(profile, profile.period_type[i])
    /\ ddprof_ffi_Profile_reset(profile)

\* C29's case: a reset of a profile that holds a sample and has seen an add
\* return Full, and a second reset later on; both gave back a profile.
C29_Witness ==
    /\ Cardinality(ResetCalls) = 2
    /\ Len(returned) = 2
    /\ returned[1].samples # << >>
    /\ \E i, j \in 1..Len(history) :
          /\ i < j
          /\ history[i].op = "add" /\ ~history[i].res.ok
          /\ history[j].op = "reset"
    /\ profile.period_type # << >>

\* C30: an add that returns Full leaves the sample map unchanged: no sample
\* key is inserted and no stored value is altered by that call, whichever
\* location of the sample made it fail.
C30_FullLeavesSamples ==
    [][ (LastOp'.op = "add" /\ ~LastOp'.res.ok)
        => profile'.samples = profile.samples ]_vars

\* C30's case: with a sample stored, an add has returned Full at its second
\* location, the first location having been stored by then.
C30_Witness ==
    /\ profile.samples # << >>
    /\ \E i \in FullAdds :
          /\ Len(Arg(i).locations) = 2
          /\ Arg(i).locations[1] \in StoredLocations
          /\ Arg(i).locations[2] \notin StoredLocations

====
